---------------------------- MODULE Spec2Model ----------------------------
(***************************************************************************)
(* True Ledger Core: the producer (true_ledger_segment1) that creates an   *)
(* identity, signs a double-entry transaction and saves it, and the        *)
(* verifier (true_ledger_segment2_verifier) that loads it, checks the      *)
(* signature against the key recovered from author_did and checks the      *)
(* balance.                                                                *)
(*                                                                         *)
(* Text is a sequence of one-character strings, bytes are numbers 0..255.  *)
(* A Result<T, String> is a record [ok, val, err].                         *)
(***************************************************************************)
EXTENDS Integers, Sequences, FiniteSets, TLC

Ok(v)  == [ok |-> TRUE,  val |-> v,    err |-> ""]
Err(e) == [ok |-> FALSE, val |-> <<>>, err |-> e]

(***************************************************************************)
(* Multi-digit arithmetic on little-endian digit sequences: the digits d   *)
(* in base b, times m, plus c.  It is the inner loop of the base-58 codec  *)
(* and of the decimal-to-binary conversion.                                *)
(***************************************************************************)
RECURSIVE MulAdd(_, _, _, _)
MulAdd(d, m, b, c) ==
    IF d = <<>>
    THEN IF c = 0 THEN <<>> ELSE <<c % b>> \o MulAdd(<<>>, m, b, c \div b)
    ELSE LET v == Head(d) * m + c
         IN  <<v % b>> \o MulAdd(Tail(d), m, b, v \div b)

RECURSIVE Reverse(_)
Reverse(s) == IF s = <<>> THEN <<>> ELSE Reverse(Tail(s)) \o <<Head(s)>>

RECURSIVE Repeat(_, _)
Repeat(x, n) == IF n <= 0 THEN <<>> ELSE <<x>> \o Repeat(x, n - 1)

RECURSIVE LeadingCount(_, _)
LeadingCount(s, x) ==
    IF s # <<>> /\ Head(s) = x THEN 1 + LeadingCount(Tail(s), x) ELSE 0

StartsWith(s, p) == Len(s) >= Len(p) /\ SubSeq(s, 1, Len(p)) = p

(***************************************************************************)
(* Base58btc, as the multibase crate does it.                              *)
(***************************************************************************)
Base58Alphabet ==
    <<"1","2","3","4","5","6","7","8","9","A","B","C","D","E","F","G","H",
      "J","K","L","M","N","P","Q","R","S","T","U","V","W","X","Y","Z","a",
      "b","c","d","e","f","g","h","i","j","k","m","n","o","p","q","r","s",
      "t","u","v","w","x","y","z">>

Base58Chars == {Base58Alphabet[i] : i \in 1..Len(Base58Alphabet)}

Base58Value(c) == (CHOOSE i \in 1..Len(Base58Alphabet) : Base58Alphabet[i] = c) - 1

RECURSIVE Base58Digits(_, _)
Base58Digits(bytes, digits) ==
    IF bytes = <<>> THEN digits
    ELSE Base58Digits(Tail(bytes), MulAdd(digits, 256, 58, Head(bytes)))

Base58Encode(bytes) ==
    LET zeros  == LeadingCount(bytes, 0)
        digits == Reverse(Base58Digits(bytes, <<>>))
    IN  Repeat("1", zeros) \o [i \in 1..Len(digits) |-> Base58Alphabet[digits[i] + 1]]

RECURSIVE Base58Bytes(_, _)
Base58Bytes(chars, bytes) ==
    IF chars = <<>> THEN bytes
    ELSE Base58Bytes(Tail(chars), MulAdd(bytes, 58, 256, Base58Value(Head(chars))))

Base58Decode(chars) ==
    IF \E i \in 1..Len(chars) : chars[i] \notin Base58Chars
    THEN Err("InvalidBaseString")
    ELSE Ok(Repeat(0, LeadingCount(chars, "1")) \o Reverse(Base58Bytes(chars, <<>>)))

\* multibase::encode(Base58Btc, bytes): the code character z, then base58.
multibase_encode(bytes) == <<"z">> \o Base58Encode(bytes)

\* multibase::decode(Base58Btc, text): the text carries its code character,
\* which must be that of base58btc; the rest is base58.
multibase_decode(text) ==
    IF text = <<>> THEN Err("InvalidBaseString")
    ELSE IF Head(text) # "z" THEN Err("UnknownBase")
    ELSE Base58Decode(Tail(text))

(***************************************************************************)
(* Identity: Ed25519 keys.  A key pair is named by its public key bytes.   *)
(***************************************************************************)
PUBLIC_KEY_LENGTH == 32
SIGNATURE_LENGTH  == 64

KeyA == <<215,90,152,1,130,177,10,183,213,75,254,211,201,100,7,58,14,225,
          114,243,218,166,35,37,175,2,26,104,247,7,81,26>>
KeyB == <<61,64,23,195,232,67,137,90,146,183,10,167,77,27,126,188,156,152,
          44,207,46,196,150,140,192,205,85,241,42,244,102,12>>
KeyZero == Repeat(0, PUBLIC_KEY_LENGTH)
KeyMax  == Repeat(255, PUBLIC_KEY_LENGTH)
\* 32 bytes that are the y coordinate of no point of the curve.
NotAPoint == <<2>> \o Repeat(0, PUBLIC_KEY_LENGTH - 1)

\* The keys Keypair::generate may return in this model: points of the curve.
Keys == {KeyA, KeyB, KeyZero, KeyMax}

\* PublicKey::from_bytes: 32 bytes that decompress to a point of the curve.
PublicKey_from_bytes(bytes) ==
    IF Len(bytes) # PUBLIC_KEY_LENGTH THEN Err("BytesLengthError")
    ELSE IF bytes \notin Keys THEN Err("PointDecompressionError")
    ELSE Ok(bytes)

DidKeyPrefix == <<"d","i","d",":","k","e","y",":">>
Ed25519DidPrefix == <<"d","i","d",":","k","e","y",":","z","6","M","k">>
MulticodecEd25519 == <<237, 1>>

\* Account::new, the identifier built from the public key.
AccountDid(pub_key_bytes) ==
    DidKeyPrefix \o multibase_encode(MulticodecEd25519 \o pub_key_bytes)

\* A did_to_public_key that takes key_str one character too far in.
did_to_public_key_SkipMarker(did) ==
    IF ~StartsWith(did, Ed25519DidPrefix)
    THEN Err("Not an Ed25519 did:key")
    ELSE LET key_str == SubSeq(did, 10, Len(did))
             decoded == multibase_decode(key_str)
         IN  IF ~decoded.ok THEN Err("Multibase decode error")
             ELSE IF Len(decoded.val) > 2 /\ decoded.val[1] = 237 /\ decoded.val[2] = 1
             THEN LET pk == PublicKey_from_bytes(SubSeq(decoded.val, 3, Len(decoded.val)))
                  IN  IF pk.ok THEN pk ELSE Err("Invalid public key bytes")
             ELSE Err("Invalid multicodec prefix for Ed25519")

did_to_public_key(did) ==
    IF ~StartsWith(did, Ed25519DidPrefix)
    THEN Err("Not an Ed25519 did:key")
    ELSE LET key_str == SubSeq(did, 9, Len(did))
             decoded == multibase_decode(key_str)
         IN  IF ~decoded.ok THEN Err("Multibase decode error")
             ELSE IF Len(decoded.val) > 2 /\ decoded.val[1] = 237 /\ decoded.val[2] = 1
             THEN LET pk == PublicKey_from_bytes(SubSeq(decoded.val, 3, Len(decoded.val)))
                  IN  IF pk.ok THEN pk ELSE Err("Invalid public key bytes")
             ELSE Err("Invalid multicodec prefix for Ed25519")

(***************************************************************************)
(* hex::encode (lower case) and hex::decode (either case).                 *)
(***************************************************************************)
HexDigits == <<"0","1","2","3","4","5","6","7","8","9","a","b","c","d","e","f">>
HexUpper  == <<"0","1","2","3","4","5","6","7","8","9","A","B","C","D","E","F">>
HexChars  == {HexDigits[i] : i \in 1..16} \cup {HexUpper[i] : i \in 1..16}

HexValue(c) ==
    (CHOOSE i \in 1..16 : HexDigits[i] = c \/ HexUpper[i] = c) - 1

hex_encode(bytes) ==
    [i \in 1..(2 * Len(bytes)) |->
        LET b == bytes[(i + 1) \div 2]
        IN  IF i % 2 = 1 THEN HexDigits[(b \div 16) + 1] ELSE HexDigits[(b % 16) + 1]]

\* A hex::decode that reads a character outside the hex alphabet as the digit 0.
hex_decode_Lenient(text) ==
    IF Len(text) % 2 # 0 THEN Err("OddLength")
    ELSE Ok([i \in 1..(Len(text) \div 2) |->
                16 * (IF text[2 * i - 1] \in HexChars THEN HexValue(text[2 * i - 1]) ELSE 0)
                + (IF text[2 * i] \in HexChars THEN HexValue(text[2 * i]) ELSE 0)])

hex_decode(text) ==
    IF Len(text) % 2 # 0 THEN Err("OddLength")
    ELSE IF \E i \in 1..Len(text) : text[i] \notin HexChars
    THEN Err("InvalidHexCharacter")
    ELSE Ok([i \in 1..(Len(text) \div 2) |->
                16 * HexValue(text[2 * i - 1]) + HexValue(text[2 * i])])

(***************************************************************************)
(* f64.  A finite value is a sign and m * 2^e, with m a 53-bit number held *)
(* as little-endian digits in base 2^15 (<<>> for zero); every operation   *)
(* computes the exact result and rounds it to nearest, ties to even, as    *)
(* IEEE 754 does.  Values below the normal range are not represented.      *)
(***************************************************************************)
Limb == 32768
LimbBits == 15
MantissaBits == 53

RECURSIVE Power(_, _)
Power(b, k) == IF k = 0 THEN 1 ELSE b * Power(b, k - 1)

RECURSIVE SmallBitLen(_)
SmallBitLen(v) == IF v = 0 THEN 0 ELSE 1 + SmallBitLen(v \div 2)

BitLen(n) == IF n = <<>> THEN 0 ELSE (Len(n) - 1) * LimbBits + SmallBitLen(n[Len(n)])

RECURSIVE Trim(_)
Trim(n) == IF n # <<>> /\ n[Len(n)] = 0 THEN Trim(SubSeq(n, 1, Len(n) - 1)) ELSE n

ShiftLeft(n, k) ==
    IF n = <<>> THEN <<>>
    ELSE Repeat(0, k \div LimbBits) \o MulAdd(n, Power(2, k % LimbBits), Limb, 0)

\* n divided by the small number s, from the most significant digit down:
\* the quotient (most significant digit first) and the remainder.
RECURSIVE DivSmallMsb(_, _, _, _)
DivSmallMsb(msb, s, r, q) ==
    IF msb = <<>> THEN [q |-> q, r |-> r]
    ELSE DivSmallMsb(Tail(msb), s, (r * Limb + Head(msb)) % s,
                     Append(q, (r * Limb + Head(msb)) \div s))

DivSmallResult(d) == [q |-> Trim(Reverse(d.q)), r |-> d.r]

DivSmall(n, s) == DivSmallResult(DivSmallMsb(Reverse(n), s, 0, <<>>))

AnyNonZero(low) == \E i \in 1..Len(low) : low[i] # 0

ShiftRightResult(d, lowSticky) == [q |-> d.q, sticky |-> d.r # 0 \/ lowSticky]

\* n shifted right by k bits; sticky tells whether a one was shifted out.
ShiftRight(n, k) ==
    ShiftRightResult(DivSmall(SubSeq(n, (k \div LimbBits) + 1, Len(n)),
                              Power(2, k % LimbBits)),
                     AnyNonZero(SubSeq(n, 1, IF k \div LimbBits < Len(n)
                                             THEN k \div LimbBits ELSE Len(n))))

RECURSIVE AddLimbs(_, _, _)
AddLimbs(a, b, c) ==
    IF a = <<>> /\ b = <<>> THEN (IF c = 0 THEN <<>> ELSE <<c>>)
    ELSE IF a = <<>> THEN <<(b[1] + c) % Limb>> \o AddLimbs(a, Tail(b), (b[1] + c) \div Limb)
    ELSE IF b = <<>> THEN <<(a[1] + c) % Limb>> \o AddLimbs(Tail(a), b, (a[1] + c) \div Limb)
    ELSE <<(a[1] + b[1] + c) % Limb>>
         \o AddLimbs(Tail(a), Tail(b), (a[1] + b[1] + c) \div Limb)

\* a - b - c for a >= b + c.
RECURSIVE SubLimbs(_, _, _)
SubLimbs(a, b, c) ==
    IF a = <<>> THEN <<>>
    ELSE IF b = <<>>
    THEN <<(a[1] - c + Limb) % Limb>> \o SubLimbs(Tail(a), b, IF a[1] - c < 0 THEN 1 ELSE 0)
    ELSE <<(a[1] - b[1] - c + Limb) % Limb>>
         \o SubLimbs(Tail(a), Tail(b), IF a[1] - b[1] - c < 0 THEN 1 ELSE 0)

\* a < b, for digit sequences without leading zero digits.
RECURSIVE LessLimbs(_, _)
LessLimbs(a, b) ==
    IF Len(a) # Len(b) THEN Len(a) < Len(b)
    ELSE IF a = <<>> THEN FALSE
    ELSE IF a[Len(a)] # b[Len(b)] THEN a[Len(a)] < b[Len(b)]
    ELSE LessLimbs(Trim(SubSeq(a, 1, Len(a) - 1)), Trim(SubSeq(b, 1, Len(b) - 1)))

IsOdd(n) == n # <<>> /\ n[1] % 2 = 1

F64Zero    == [kind |-> "fin", neg |-> FALSE, m |-> <<>>, e |-> 0]
F64Inf(s)  == [kind |-> "inf", neg |-> s, m |-> <<>>, e |-> 0]
F64NaN     == [kind |-> "nan", neg |-> FALSE, m |-> <<>>, e |-> 0]
F64Fin(neg, m, e) == [kind |-> "fin", neg |-> neg, m |-> m, e |-> e]

\* Rounding to 53 bits, step by step: m1 is the rounded mantissa, which a
\* carry may have made 54 bits long.
RoundFinish(neg, m1, e, over) ==
    IF e + (IF over THEN 1 ELSE 0) + MantissaBits > 1024 THEN F64Inf(neg)
    ELSE F64Fin(neg, IF over THEN DivSmall(m1, 2).q ELSE m1, e + (IF over THEN 1 ELSE 0))

RoundCarry(neg, m1, e) == RoundFinish(neg, m1, e, BitLen(m1) > MantissaBits)

\* q.q is the mantissa cut to 53 bits, q.r the bit after it, sticky whether a
\* one follows that bit: up on more than half, and on half to the even.
RoundNearestEven(neg, q, sticky, e) ==
    RoundCarry(neg, IF q.r = 1 /\ (sticky \/ IsOdd(q.q))
                    THEN AddLimbs(q.q, <<1>>, 0) ELSE q.q, e)

RoundGuard(neg, g, sticky, e) ==
    RoundNearestEven(neg, DivSmall(g.q, 2), g.sticky \/ sticky, e)

RoundBits(neg, n, e, sticky, len) ==
    IF len <= MantissaBits
    THEN F64Fin(neg, ShiftLeft(n, MantissaBits - len), e - (MantissaBits - len))
    ELSE RoundGuard(neg, ShiftRight(n, len - MantissaBits - 1), sticky,
                    e + len - MantissaBits)

\* The f64 nearest to n * 2^e (n > 0), where sticky says that the exact
\* value lies strictly above n * 2^e (and below (n + 1) * 2^e).
RoundF64(neg, n, e, sticky) == RoundBits(neg, n, e, sticky, BitLen(n))

F64Neg(a) == IF a.kind = "nan" THEN a ELSE [a EXCEPT !.neg = ~a.neg]
F64Abs(a) == IF a.kind = "nan" THEN a ELSE [a EXCEPT !.neg = FALSE]
F64IsZero(a) == a.kind = "fin" /\ a.m = <<>>

\* x * 2^e and y * 2^e are the magnitudes of a and b.
F64AddAligned(a, b, x, y, e) ==
    IF a.neg # b.neg /\ x = y THEN F64Zero
    ELSE RoundF64(IF a.neg = b.neg \/ ~LessLimbs(x, y) THEN a.neg ELSE b.neg,
                  IF a.neg = b.neg THEN AddLimbs(x, y, 0)
                  ELSE IF LessLimbs(x, y) THEN Trim(SubLimbs(y, x, 0))
                  ELSE Trim(SubLimbs(x, y, 0)),
                  e, FALSE)

F64AddFinite(a, b, e) ==
    F64AddAligned(a, b, ShiftLeft(a.m, a.e - e), ShiftLeft(b.m, b.e - e), e)

\* a + b
F64Add(a, b) ==
    IF a.kind = "nan" \/ b.kind = "nan" THEN F64NaN
    ELSE IF a.kind = "inf"
    THEN (IF b.kind = "inf" /\ b.neg # a.neg THEN F64NaN ELSE a)
    ELSE IF b.kind = "inf" THEN b
    ELSE IF F64IsZero(a) THEN (IF F64IsZero(b) THEN [b EXCEPT !.neg = a.neg /\ b.neg] ELSE b)
    ELSE IF F64IsZero(b) THEN a
    ELSE F64AddFinite(a, b, IF a.e < b.e THEN a.e ELSE b.e)

F64Sub(a, b) == F64Add(a, F64Neg(b))

\* |a| < |b|, neither a NaN.
F64MagLess(a, b) ==
    IF a.kind = "inf" THEN FALSE
    ELSE IF b.kind = "inf" THEN TRUE
    ELSE IF F64IsZero(b) THEN FALSE
    ELSE IF F64IsZero(a) THEN TRUE
    ELSE IF a.e # b.e THEN a.e < b.e
    ELSE LessLimbs(a.m, b.m)

\* a < b
F64Less(a, b) ==
    IF a.kind = "nan" \/ b.kind = "nan" THEN FALSE
    ELSE IF F64IsZero(a) /\ F64IsZero(b) THEN FALSE
    ELSE IF a.neg # b.neg THEN a.neg
    ELSE F64MagLess(IF a.neg THEN b ELSE a, IF a.neg THEN a ELSE b)

(***************************************************************************)
(* str::parse::<f64>: an optional sign, then inf, infinity or nan in any   *)
(* case, or digits with an optional point and an optional exponent.        *)
(***************************************************************************)
Digits == <<"0","1","2","3","4","5","6","7","8","9">>
DigitChars == {Digits[i] : i \in 1..10}
DigitValue(c) == (CHOOSE i \in 1..10 : Digits[i] = c) - 1

RECURSIVE LeadingDigits(_)
LeadingDigits(s) ==
    IF s # <<>> /\ Head(s) \in DigitChars THEN 1 + LeadingDigits(Tail(s)) ELSE 0

Drop(s, n) == SubSeq(s, n + 1, Len(s))

LowerCase(c) ==
    CASE c = "I" -> "i" [] c = "N" -> "n" [] c = "F" -> "f" [] c = "A" -> "a"
      [] c = "T" -> "t" [] c = "Y" -> "y" [] OTHER -> c

Lower(s) == [i \in 1..Len(s) |-> LowerCase(s[i])]

RECURSIVE BigFromDigits(_, _)
BigFromDigits(s, n) ==
    IF s = <<>> THEN n
    ELSE BigFromDigits(Tail(s), MulAdd(n, 10, Limb, DigitValue(Head(s))))

RECURSIVE SmallFromDigits(_, _)
SmallFromDigits(s, n) ==
    IF s = <<>> THEN n ELSE SmallFromDigits(Tail(s), 10 * n + DigitValue(Head(s)))

\* n times 10^p, four decimal digits at a time.
RECURSIVE MulPow10(_, _)
MulPow10(n, p) ==
    IF p = 0 THEN n
    ELSE MulPow10(MulAdd(n, Power(10, IF p < 4 THEN p ELSE 4), Limb, 0),
                  p - (IF p < 4 THEN p ELSE 4))

DivPow5Step(d, sticky) == [q |-> d.q, sticky |-> sticky \/ d.r # 0]

\* n.q divided by 5^p, six factors at a time: the quotient, and whether any
\* remainder was left.
RECURSIVE DivPow5(_, _)
DivPow5(n, p) ==
    IF p = 0 THEN n
    ELSE DivPow5(DivPow5Step(DivSmall(n.q, Power(5, IF p < 6 THEN p ELSE 6)), n.sticky),
                 p - (IF p < 6 THEN p ELSE 6))

DecimalQuotient(neg, d, e) == RoundF64(neg, d.q, e, d.sticky)

\* n * 10^p for p < 0: n * 2^s / 5^(-p), times 2^(p - s), with s large
\* enough to leave the quotient more than 54 bits.
DecimalScaled(neg, n, p, s) ==
    DecimalQuotient(neg, DivPow5([q |-> ShiftLeft(n, s), sticky |-> FALSE], -p), p - s)

DecimalFraction(neg, n, p, need) ==
    DecimalScaled(neg, n, p, IF need > 0 THEN need ELSE 0)

\* The f64 nearest to n * 10^p.
DecimalToF64(neg, n, p) ==
    IF n = <<>> THEN [F64Zero EXCEPT !.neg = neg]
    ELSE IF p >= 0 THEN DecimalQuotient(neg, [q |-> MulPow10(n, p), sticky |-> FALSE], 0)
    ELSE DecimalFraction(neg, n, p, MantissaBits + 3 + 3 * (-p) - BitLen(n))

\* The exponent: r4 follows the e, r5 follows its sign.
ParseExponent(neg, mant, nf, r4, r5) ==
    IF LeadingDigits(r5) = 0 \/ LeadingDigits(r5) # Len(r5) THEN Err("Invalid")
    ELSE Ok(DecimalToF64(neg, mant,
                         (IF r4 # r5 /\ Head(r4) = "-" THEN -SmallFromDigits(r5, 0)
                          ELSE SmallFromDigits(r5, 0)) - nf))

ParseExponentSign(neg, mant, nf, r4) ==
    ParseExponent(neg, mant, nf, r4,
                  IF r4 # <<>> /\ Head(r4) \in {"+", "-"} THEN Tail(r4) ELSE r4)

\* mant: the digits before and after the point; nf: how many follow the
\* point; r3: what follows the digits.
ParseTail(neg, mant, nf, r3) ==
    IF r3 = <<>> THEN Ok(DecimalToF64(neg, mant, -nf))
    ELSE IF Head(r3) \notin {"e", "E"} THEN Err("Invalid")
    ELSE ParseExponentSign(neg, mant, nf, Tail(r3))

ParseDigits(neg, int, frac, nf, r3) ==
    IF Len(int) + nf = 0 THEN Err("Invalid")
    ELSE ParseTail(neg, BigFromDigits(int \o SubSeq(frac, 1, nf), <<>>), nf, r3)

ParseFraction(neg, int, r2, nf) == ParseDigits(neg, int, r2, nf, Drop(r2, nf))

ParsePoint(neg, int, r1) ==
    IF r1 # <<>> /\ Head(r1) = "."
    THEN ParseFraction(neg, int, Tail(r1), LeadingDigits(Tail(r1)))
    ELSE ParseFraction(neg, int, r1, 0)

ParseNumber(neg, body, ni) == ParsePoint(neg, SubSeq(body, 1, ni), Drop(body, ni))

ParseBody(neg, body, lower) ==
    IF body = <<>> THEN Err("Empty")
    ELSE IF lower \in {<<"i","n","f">>, <<"i","n","f","i","n","i","t","y">>}
    THEN Ok(F64Inf(neg))
    ELSE IF lower = <<"n","a","n">> THEN Ok(F64NaN)
    ELSE ParseNumber(neg, body, LeadingDigits(body))

ParseSigned(neg, body) == ParseBody(neg, body, Lower(body))

parse_f64(text) ==
    IF text # <<>> /\ Head(text) \in {"+", "-"}
    THEN ParseSigned(Head(text) = "-", Tail(text))
    ELSE ParseSigned(FALSE, text)

(***************************************************************************)
(* The balance check of the verifier.                                      *)
(***************************************************************************)
\* The literal 0.0001, as the compiler rounds it.
Tolerance == parse_f64(<<"0",".","0","0","0","1">>).val

Imbalance(total_debits, total_credits) ==
    [ok |-> FALSE, val |-> <<total_debits, total_credits>>,
     err |-> "Financial imbalance detected"]

BalanceStep(debit, credit, total_debits, total_credits) ==
    IF ~debit.ok THEN Err("Invalid debit amount format (Not a number).")
    ELSE IF ~credit.ok THEN Err("Invalid credit amount format (Not a number).")
    ELSE Ok(<<F64Add(total_debits, debit.val), F64Add(total_credits, credit.val)>>)

\* The for loop: totals is the two sums so far, or the first error.
RECURSIVE BalanceLoop(_, _)
BalanceLoop(entries, totals) ==
    IF entries = <<>> \/ ~totals.ok THEN totals
    ELSE BalanceLoop(Tail(entries),
                     BalanceStep(parse_f64(Head(entries).debit),
                                 parse_f64(Head(entries).credit),
                                 totals.val[1], totals.val[2]))

BalanceVerdict(totals) ==
    IF ~totals.ok THEN totals
    ELSE IF F64Less(F64Abs(F64Sub(totals.val[1], totals.val[2])), Tolerance)
    THEN Ok(<<>>)
    ELSE Imbalance(totals.val[1], totals.val[2])

verify_balance(tx) == BalanceVerdict(BalanceLoop(tx.entries, Ok(<<F64Zero, F64Zero>>)))

(***************************************************************************)
(* serde_json::to_string of a Transaction, as each program derives it for  *)
(* its own struct: the fields in declaration order, no white space, text   *)
(* quoted with the quote and the backslash escaped.                        *)
(***************************************************************************)
RECURSIVE u64_to_text(_)
u64_to_text(n) ==
    IF n < 10 THEN <<Digits[n + 1]>>
    ELSE u64_to_text(n \div 10) \o <<Digits[(n % 10) + 1]>>

RECURSIVE JsonEscape(_)
JsonEscape(text) ==
    IF text = <<>> THEN <<>>
    ELSE (IF Head(text) \in {"\"", "\\"} THEN <<"\\", Head(text)>> ELSE <<Head(text)>>)
         \o JsonEscape(Tail(text))

JsonString(text) == <<"\"">> \o JsonEscape(text) \o <<"\"">>

JsonField(first, name, value) ==
    (IF first THEN <<>> ELSE <<",">>) \o JsonString(name) \o <<":">> \o value

RECURSIVE JsonArray(_)
JsonArray(items) ==
    IF items = <<>> THEN <<>>
    ELSE Head(items) \o (IF Len(items) > 1 THEN <<",">> ELSE <<>>) \o JsonArray(Tail(items))

FieldName ==
    [timestamp  |-> <<"t","i","m","e","s","t","a","m","p">>,
     author_did |-> <<"a","u","t","h","o","r","_","d","i","d">>,
     entries    |-> <<"e","n","t","r","i","e","s">>,
     memo       |-> <<"m","e","m","o">>,
     account_id |-> <<"a","c","c","o","u","n","t","_","i","d">>,
     debit      |-> <<"d","e","b","i","t">>,
     credit     |-> <<"c","r","e","d","i","t">>]

\* The producer's structs (true_ledger_segment1).
ProducerEntryJson(entry) ==
    <<"{">> \o JsonField(TRUE, FieldName.account_id, JsonString(entry.account_id))
            \o JsonField(FALSE, FieldName.debit, JsonString(entry.debit))
            \o JsonField(FALSE, FieldName.credit, JsonString(entry.credit)) \o <<"}">>

ProducerTransactionJson(tx) ==
    <<"{">> \o JsonField(TRUE, FieldName.timestamp, u64_to_text(tx.timestamp))
            \o JsonField(FALSE, FieldName.author_did, JsonString(tx.author_did))
            \o JsonField(FALSE, FieldName.entries,
                 <<"[">> \o JsonArray([i \in 1..Len(tx.entries) |->
                                          ProducerEntryJson(tx.entries[i])]) \o <<"]">>)
            \o JsonField(FALSE, FieldName.memo, JsonString(tx.memo)) \o <<"}">>

\* The verifier's structs (true_ledger_segment2_verifier).
VerifierEntryJson(entry) ==
    <<"{">> \o JsonField(TRUE, FieldName.account_id, JsonString(entry.account_id))
            \o JsonField(FALSE, FieldName.debit, JsonString(entry.debit))
            \o JsonField(FALSE, FieldName.credit, JsonString(entry.credit)) \o <<"}">>

VerifierTransactionJson(tx) ==
    <<"{">> \o JsonField(TRUE, FieldName.timestamp, u64_to_text(tx.timestamp))
            \o JsonField(FALSE, FieldName.author_did, JsonString(tx.author_did))
            \o JsonField(FALSE, FieldName.entries,
                 <<"[">> \o JsonArray([i \in 1..Len(tx.entries) |->
                                          VerifierEntryJson(tx.entries[i])]) \o <<"]">>)
            \o JsonField(FALSE, FieldName.memo, JsonString(tx.memo)) \o <<"}">>

\* SHA-256 as a collision-free hash: the digest stands for exactly one input.
Sha256(data) == [sha256 |-> data]

\* Transaction::get_hash of the producer and of the verifier.
producer_get_hash(tx) == Sha256(ProducerTransactionJson(tx))
get_hash(tx) == Sha256(VerifierTransactionJson(tx))

(***************************************************************************)
(* The persisted document.  The JSON text of the file is held as the value *)
(* it denotes: objects as records, each scalar with its JSON type.         *)
(***************************************************************************)
JStr(text) == [type |-> "string", s |-> text, n |-> 0]
JNum(n)    == [type |-> "number", s |-> <<>>, n |-> n]

EntryToJson(entry) ==
    [account_id |-> JStr(entry.account_id), debit |-> JStr(entry.debit),
     credit |-> JStr(entry.credit)]

\* serde_json::to_string_pretty(&signed_genesis_tx)
SignedTransactionToJson(stx) ==
    [payload |-> [timestamp  |-> JNum(stx.payload.timestamp),
                  author_did |-> JStr(stx.payload.author_did),
                  entries    |-> [i \in 1..Len(stx.payload.entries) |->
                                     EntryToJson(stx.payload.entries[i])],
                  memo       |-> JStr(stx.payload.memo)],
     signature |-> JStr(stx.signature)]

IsU64(v) == v.type = "number" /\ v.n >= 0
IsText(v) == v.type = "string"

\* serde_json::from_str::<SignedTransaction>
SignedTransactionFromJson(doc) ==
    LET p == doc.payload
    IN  IF /\ IsU64(p.timestamp) /\ IsText(p.author_did) /\ IsText(p.memo)
           /\ IsText(doc.signature)
           /\ \A i \in 1..Len(p.entries) :
                 /\ IsText(p.entries[i].account_id)
                 /\ IsText(p.entries[i].debit)
                 /\ IsText(p.entries[i].credit)
        THEN Ok([payload |-> [timestamp  |-> p.timestamp.n,
                              author_did |-> p.author_did.s,
                              entries    |-> [i \in 1..Len(p.entries) |->
                                                 [account_id |-> p.entries[i].account_id.s,
                                                  debit      |-> p.entries[i].debit.s,
                                                  credit     |-> p.entries[i].credit.s]],
                              memo       |-> p.memo.s],
                 signature |-> doc.signature.s])
        ELSE Err("Failed to parse transaction data")

(***************************************************************************)
(* Ed25519 as an unforgeable scheme: a signature verifies under a key and  *)
(* a message exactly when the holder of that key issued it for that        *)
(* message.  issued is the set of [key, msg, sig] that were signed.        *)
(***************************************************************************)
Signature_from_bytes(bytes) ==
    IF Len(bytes) # SIGNATURE_LENGTH THEN Err("BytesLengthError")
    ELSE IF bytes[SIGNATURE_LENGTH] >= 32 THEN Err("ScalarFormatError")
    ELSE Ok(bytes)

ed25519_verify(issued, public_key, msg, signature) ==
    [key |-> public_key, msg |-> msg, sig |-> signature] \in issued

ErrSignatureInvalid == "Signature verification failed: Tampering detected or wrong key."

\* A verify_signature that decodes the signature before it recovers the identity.
verify_signature_run_SignatureFirst(signed_tx, issued) ==
    LET public_key == did_to_public_key(signed_tx.payload.author_did)
        signature_bytes == hex_decode(signed_tx.signature)
        signature == Signature_from_bytes(signature_bytes.val)
        tx_hash == get_hash(signed_tx.payload)
    IN  IF ~signature_bytes.ok
        THEN [res |-> Err("Invalid hex signature"), steps |-> <<"hex_decode">>]
        ELSE IF ~signature.ok
        THEN [res |-> Err("Invalid signature format"),
              steps |-> <<"hex_decode", "Signature_from_bytes">>]
        ELSE IF ~public_key.ok
        THEN [res |-> public_key,
              steps |-> <<"hex_decode", "Signature_from_bytes", "did_to_public_key">>]
        ELSE [res |-> IF ed25519_verify(issued, public_key.val, tx_hash, signature.val)
                      THEN Ok(<<TRUE>>) ELSE Err(ErrSignatureInvalid),
              steps |-> <<"hex_decode", "Signature_from_bytes", "did_to_public_key",
                          "get_hash", "verify">>]

\* A verify_signature that drops the outcome of public_key.verify.
verify_signature_run_VerifyIgnored(signed_tx, issued) ==
    LET public_key == did_to_public_key(signed_tx.payload.author_did)
        signature_bytes == hex_decode(signed_tx.signature)
        signature == Signature_from_bytes(signature_bytes.val)
    IN  IF ~public_key.ok
        THEN [res |-> public_key, steps |-> <<"did_to_public_key">>]
        ELSE IF ~signature_bytes.ok
        THEN [res |-> Err("Invalid hex signature"),
              steps |-> <<"did_to_public_key", "hex_decode">>]
        ELSE IF ~signature.ok
        THEN [res |-> Err("Invalid signature format"),
              steps |-> <<"did_to_public_key", "hex_decode", "Signature_from_bytes">>]
        ELSE [res |-> Ok(<<TRUE>>),
              steps |-> <<"did_to_public_key", "hex_decode", "Signature_from_bytes",
                          "get_hash", "verify">>]

\* verify_signature: its result, and the checks it ran, in order.
verify_signature_run(signed_tx, issued) ==
    LET public_key == did_to_public_key(signed_tx.payload.author_did)
        signature_bytes == hex_decode(signed_tx.signature)
        signature == Signature_from_bytes(signature_bytes.val)
        tx_hash == get_hash(signed_tx.payload)
    IN  IF ~public_key.ok
        THEN [res |-> public_key, steps |-> <<"did_to_public_key">>]
        ELSE IF ~signature_bytes.ok
        THEN [res |-> Err("Invalid hex signature"),
              steps |-> <<"did_to_public_key", "hex_decode">>]
        ELSE IF ~signature.ok
        THEN [res |-> Err("Invalid signature format"),
              steps |-> <<"did_to_public_key", "hex_decode", "Signature_from_bytes">>]
        ELSE [res |-> IF ed25519_verify(issued, public_key.val, tx_hash, signature.val)
                      THEN Ok(<<TRUE>>) ELSE Err(ErrSignatureInvalid),
              steps |-> <<"did_to_public_key", "hex_decode", "Signature_from_bytes",
                          "get_hash", "verify">>]

(***************************************************************************)
(* The inputs of the model.                                                *)
(***************************************************************************)
MaxEntries == 2

\* The identities that sign: RFC 8032's first two test keys.
Signers == {KeyA, KeyB}

\* ed25519 signing is deterministic; these bytes (RFC 8032's first two test
\* signatures) stand for the signature of each key over the signed digest.
SignatureBytes(keypair) ==
    IF keypair = KeyA
    THEN <<229,86,67,0,195,96,172,114,144,134,226,204,128,110,130,138,132,135,
           127,30,184,229,217,116,216,115,224,101,34,73,1,85,95,184,130,21,144,
           163,59,172,198,30,57,112,28,249,180,107,210,91,245,240,89,91,190,36,
           101,81,65,67,142,122,16,11>>
    ELSE <<146,160,9,169,240,212,202,184,114,14,130,11,95,100,37,64,162,178,
           123,84,22,80,63,143,179,118,34,35,235,219,105,218,8,90,193,228,62,21,
           153,110,69,143,54,19,208,241,29,140,56,123,46,174,180,48,42,238,176,
           13,41,22,18,187,12,0>>

GenesisTimestamp == 1730814442
GenesisMemo ==
    <<"I","n","i","t","i","a","l"," ","c","a","p","i","t","a","l"," ","c","o","n",
      "t","r","i","b","u","t","i","o","n"," ","b","y"," ","o","w","n","e","r",".">>
QuotedMemo == <<"O","w","n","e","r"," ","\"","A","\"">>

Cash    == <<"1","0","1","0","0">>
Capital == <<"3","0","1","0","0">>

Entry(account_id, debit, credit) ==
    [account_id |-> account_id, debit |-> debit, credit |-> credit]

Amt10000 == <<"1","0","0","0","0",".","0","0">>
Amt9999  == <<"9","9","9","9",".","9","9">>
AmtZero  == <<"0",".","0","0">>
AmtBigA  == <<"5","8","7","2","5","2","8","2","9","0","4","5","3",".","8","9">>
AmtBigB  == <<"5","8","7","2","5","2","8","2","9","0","4","5","3",".","9","0">>
AmtCent  == <<"0",".","0","1">>

GenesisEntries == <<Entry(Cash, Amt10000, AmtZero), Entry(Capital, AmtZero, Amt10000)>>

EntryPool ==
    {Entry(Cash, Amt10000, AmtZero), Entry(Capital, AmtZero, Amt10000),
     Entry(Capital, AmtZero, Amt9999)}

EntryLists == UNION {[1..n -> EntryPool] : n \in 0..MaxEntries}

NoAccount     == [keypair |-> <<>>, did |-> <<>>]
NoTransaction == [timestamp |-> 0, author_did |-> <<>>, entries |-> <<>>, memo |-> <<>>]
NoSigned      == [payload |-> NoTransaction, signature |-> <<>>]
NoFile        == [exists |-> FALSE, doc |-> SignedTransactionToJson(NoSigned)]
NotRun        == [ok |-> FALSE, val |-> <<>>, err |-> "not run"]
NoTamper      == [kind |-> "none", pos |-> 0, char |-> ""]
NoCodec       == [pc |-> "idle", did |-> <<>>, key |-> <<>>, reason |-> "none",
                  result |-> NotRun, prev_reason |-> "none", prev_err |-> ""]

VARIABLES
    pc1,                \* the producer's place in main
    account,            \* Step A: the identity
    genesis_tx,         \* Step B: the payload
    signed_genesis_tx,  \* Step C: payload and signature
    issued,             \* what the identities have signed
    file,               \* genesis_transaction.json
    tamper,             \* the change made to the file after it was saved
    pc2,                \* the verifier's place in main
    json_data,          \* the document the verifier read
    signed_tx,          \* the SignedTransaction the verifier parsed
    signature_result,   \* what verify_signature returned
    balance_result,     \* what verify_balance returned
    checks,             \* the checks the verifier ran, in order
    outcome,            \* what the verifier reported
    codec               \* an identifier built or received, and what decoding it gave

vars == <<pc1, account, genesis_tx, signed_genesis_tx, issued, file, tamper,
          pc2, json_data, signed_tx, signature_result, balance_result, checks, outcome,
          codec>>

producerVars == <<pc1, account, genesis_tx, signed_genesis_tx, issued>>
verifierVars == <<pc2, json_data, signed_tx, signature_result, balance_result,
                  checks, outcome>>

Init ==
    /\ pc1 = "start"
    /\ account = NoAccount
    /\ genesis_tx = NoTransaction
    /\ signed_genesis_tx = NoSigned
    /\ issued = {}
    /\ file = NoFile
    /\ tamper = NoTamper
    /\ pc2 = "start"
    /\ json_data = NoFile.doc
    /\ signed_tx = NoSigned
    /\ signature_result = NotRun
    /\ balance_result = NotRun
    /\ checks = <<>>
    /\ outcome = "running"
    /\ codec = NoCodec

(***************************************************************************)
(* The producer, true_ledger_segment1's main.                              *)
(***************************************************************************)
\* Step A: Account::new()
AccountNew ==
    /\ pc1 = "start"
    /\ \E keypair \in Signers :
          account' = [keypair |-> keypair, did |-> AccountDid(keypair)]
    /\ pc1' = "account"
    /\ UNCHANGED <<codec, genesis_tx, signed_genesis_tx, issued, file, tamper, verifierVars>>

\* Step B: the transaction, authored by the account.
CreateTransaction ==
    /\ pc1 = "account"
    /\ \E entries \in EntryLists :
          genesis_tx' = [timestamp  |-> GenesisTimestamp,
                         author_did |-> account.did,
                         entries    |-> entries,
                         memo       |-> GenesisMemo]
    /\ pc1' = "tx"
    /\ UNCHANGED <<codec, account, signed_genesis_tx, issued, file, tamper, verifierVars>>

\* Step C: sign the hash, store the signature as hex.
SignTransaction ==
    /\ pc1 = "tx"
    /\ LET tx_hash   == producer_get_hash(genesis_tx)
           signature == SignatureBytes(account.keypair)
       IN  /\ issued' = issued \cup
                  {[key |-> account.keypair, msg |-> tx_hash, sig |-> signature]}
           /\ signed_genesis_tx' =
                  [payload |-> genesis_tx, signature |-> hex_encode(signature)]
    /\ pc1' = "signed"
    /\ UNCHANGED <<codec, account, genesis_tx, file, tamper, verifierVars>>

\* Step D: save to genesis_transaction.json.
SaveFile ==
    /\ pc1 = "signed"
    /\ file' = [exists |-> TRUE, doc |-> SignedTransactionToJson(signed_genesis_tx)]
    /\ pc1' = "saved"
    /\ UNCHANGED <<codec, account, genesis_tx, signed_genesis_tx, issued, tamper, verifierVars>>

\* Step B as main writes it: the owner's initial capital contribution.
CreateGenesisTransaction ==
    /\ pc1 = "account"
    /\ genesis_tx' = [timestamp  |-> GenesisTimestamp,
                      author_did |-> account.did,
                      entries    |-> GenesisEntries,
                      memo       |-> GenesisMemo]
    /\ pc1' = "tx"
    /\ UNCHANGED <<codec, account, signed_genesis_tx, issued, file, tamper, verifierVars>>

(***************************************************************************)
(* Between the two programs the file may be changed, once, in one place.   *)
(***************************************************************************)
Tamperable == pc1 = "saved" /\ pc2 = "start" /\ tamper.kind = "none" /\ file.exists

Tampered(kind, pos, char, doc) ==
    /\ file' = [file EXCEPT !.doc = doc]
    /\ tamper' = [kind |-> kind, pos |-> pos, char |-> char]
    /\ UNCHANGED <<codec, producerVars, verifierVars>>

TamperAmounts == {Amt9999, <<"1","0","0","0","0",".","0">>}

TamperTimestamp ==
    /\ Tamperable
    /\ Tampered("timestamp", 0, "",
                [file.doc EXCEPT !.payload.timestamp = JNum(@.n + 1)])

TamperMemo ==
    /\ Tamperable
    /\ file.doc.payload.memo # JStr(QuotedMemo)
    /\ Tampered("memo", 0, "", [file.doc EXCEPT !.payload.memo = JStr(QuotedMemo)])

TamperAccountId ==
    /\ Tamperable
    /\ \E i \in 1..Len(file.doc.payload.entries) :
       \E id \in {Cash, Capital} \ {file.doc.payload.entries[i].account_id.s} :
          Tampered("account_id", i, "",
                   [file.doc EXCEPT !.payload.entries[i].account_id = JStr(id)])

TamperDebit ==
    /\ Tamperable
    /\ \E i \in 1..Len(file.doc.payload.entries) :
       \E amount \in TamperAmounts \ {file.doc.payload.entries[i].debit.s} :
          Tampered("debit", i, "",
                   [file.doc EXCEPT !.payload.entries[i].debit = JStr(amount)])

TamperCredit ==
    /\ Tamperable
    /\ \E i \in 1..Len(file.doc.payload.entries) :
       \E amount \in TamperAmounts \ {file.doc.payload.entries[i].credit.s} :
          Tampered("credit", i, "",
                   [file.doc EXCEPT !.payload.entries[i].credit = JStr(amount)])

TamperEntryOrder ==
    /\ Tamperable
    /\ \E i \in 1..(Len(file.doc.payload.entries) - 1) :
          LET entries == file.doc.payload.entries
          IN  /\ entries[i] # entries[i + 1]
              /\ Tampered("entry_order", i, "",
                          [file.doc EXCEPT !.payload.entries =
                              [entries EXCEPT ![i] = entries[i + 1],
                                              ![i + 1] = entries[i]]])

\* author_did replaced by the identifier of another identity.
TamperAuthor ==
    /\ Tamperable
    /\ \E other \in Signers \ {account.keypair} :
          Tampered("author_other", 0, "",
                   [file.doc EXCEPT !.payload.author_did = JStr(AccountDid(other))])

\* Identifiers that are no did:key of an Ed25519 key.
MalformedDids(did, key) ==
    {[kind |-> "no_scheme",    did |-> SubSeq(did, 9, Len(did))],
     [kind |-> "bad_alphabet", did |-> [did EXCEPT ![Len(did)] = "0"]],
     [kind |-> "wrong_tag",    did |-> DidKeyPrefix \o multibase_encode(<<236, 1>> \o key)],
     [kind |-> "wrong_length", did |-> DidKeyPrefix \o
                  multibase_encode(MulticodecEd25519 \o SubSeq(key, 1, Len(key) - 1))],
     [kind |-> "not_a_point",  did |-> AccountDid(NotAPoint)]}

TamperAuthorMalformed ==
    /\ Tamperable
    /\ \E bad \in MalformedDids(account.did, account.keypair) :
          Tampered("author_malformed", 0, bad.kind,
                   [file.doc EXCEPT !.payload.author_did = JStr(bad.did)])

ReplacementChars ==
    {HexDigits[i] : i \in 1..16} \cup {"A", "B", "C", "D", "E", "F", "g", "G", " "}

\* One character of the signature text replaced by a different one.
TamperSignature(positions, chars) ==
    /\ Tamperable
    /\ \E pos \in positions \cap (1..Len(file.doc.signature.s)) :
       \E char \in chars \ {file.doc.signature.s[pos]} :
          Tampered("signature", pos, char,
                   [file.doc EXCEPT !.signature.s[pos] = char])

\* The document no longer has the shape of a SignedTransaction.
CorruptDocument ==
    /\ Tamperable
    /\ \E doc \in {[file.doc EXCEPT !.payload.timestamp = JStr(u64_to_text(@.n))],
                   [file.doc EXCEPT !.payload.timestamp = JNum(-1)],
                   [file.doc EXCEPT !.signature = JNum(0)]} :
          Tampered("document", 0, "", doc)

(***************************************************************************)
(* The verifier, true_ledger_segment2_verifier's main.                     *)
(***************************************************************************)
\* A main that goes on to the balance check whatever verify_signature returned.
MainAfterSignature_Continue(result) == "signature_ok"
\* A main that reports whatever verify_balance returned.
MainAfterBalance_Continue(result) == "balance_ok"

\* What main does with verify_signature's result, and with verify_balance's.
MainAfterSignature(result) == IF result.ok THEN "signature_ok" ELSE "returned"
MainAfterBalance(result) == IF result.ok THEN "balance_ok" ELSE "returned"

\* 1. fs::read_to_string(file_path)
LoadFile ==
    /\ pc2 = "start"
    /\ IF file.exists
       THEN /\ json_data' = file.doc
            /\ pc2' = "loaded"
            /\ UNCHANGED outcome
       ELSE /\ outcome' = "read_error"
            /\ pc2' = "returned"
            /\ UNCHANGED json_data
    /\ UNCHANGED <<codec, producerVars, file, tamper, signed_tx, signature_result,
                   balance_result, checks>>

\* 2. serde_json::from_str(&json_data)
Deserialize ==
    /\ pc2 = "loaded"
    /\ LET parsed == SignedTransactionFromJson(json_data)
       IN  IF parsed.ok
           THEN /\ signed_tx' = parsed.val
                /\ pc2' = "parsed"
                /\ UNCHANGED outcome
           ELSE /\ outcome' = "parse_error"
                /\ pc2' = "returned"
                /\ UNCHANGED signed_tx
    /\ UNCHANGED <<codec, producerVars, file, tamper, json_data, signature_result,
                   balance_result, checks>>

\* 3. verify_signature(&signed_tx)
VerifySignature ==
    /\ pc2 = "parsed"
    /\ LET run == verify_signature_run(signed_tx, issued)
       IN  /\ signature_result' = run.res
           /\ checks' = checks \o run.steps
           /\ pc2' = MainAfterSignature(run.res)
           /\ outcome' = IF pc2' = "returned" THEN "signature_failed" ELSE outcome
    /\ UNCHANGED <<codec, producerVars, file, tamper, json_data, signed_tx, balance_result>>

\* 4. verify_balance(&signed_tx.payload)
VerifyBalance ==
    /\ pc2 = "signature_ok"
    /\ LET result == verify_balance(signed_tx.payload)
       IN  /\ balance_result' = result
           /\ checks' = Append(checks, "verify_balance")
           /\ pc2' = MainAfterBalance(result)
           /\ outcome' = IF pc2' = "returned" THEN "balance_failed" ELSE outcome
    /\ UNCHANGED <<codec, producerVars, file, tamper, json_data, signed_tx, signature_result>>

\* TRANSACTION IS VERIFIED AND VALID
Report ==
    /\ pc2 = "balance_ok"
    /\ outcome' = "valid"
    /\ pc2' = "done"
    /\ UNCHANGED <<codec, producerVars, file, tamper, json_data, signed_tx, signature_result,
                   balance_result, checks>>

Next ==
    \/ AccountNew
    \/ CreateTransaction
    \/ SignTransaction
    \/ SaveFile
    \/ TamperTimestamp
    \/ TamperMemo
    \/ TamperAccountId
    \/ TamperDebit
    \/ TamperCredit
    \/ TamperEntryOrder
    \/ TamperAuthor
    \/ TamperAuthorMalformed
    \/ TamperSignature({1, 2 * SIGNATURE_LENGTH - 1, 2 * SIGNATURE_LENGTH},
                       {"0", "b", "B", "g", "1", "3"})
    \/ CorruptDocument
    \/ LoadFile
    \/ Deserialize
    \/ VerifySignature
    \/ VerifyBalance
    \/ Report

Spec == Init /\ [][Next]_vars

(***************************************************************************)
(* What the claims speak of.                                               *)
(***************************************************************************)
VerifierEnded == pc2 \in {"returned", "done"}
SignatureChecked == pc2 \in {"signature_ok", "balance_ok", "done"} \/ outcome \in {"signature_failed", "balance_failed"}
BalanceChecked == pc2 \in {"balance_ok", "done"} \/ outcome = "balance_failed"

\* A non-negative decimal: digits, then possibly a point and digits.
WellFormedTail(rest) ==
    rest = <<>> \/ (/\ Head(rest) = "."
                    /\ Len(rest) > 1
                    /\ LeadingDigits(Tail(rest)) = Len(rest) - 1)

WellFormedDecimal(text) ==
    LeadingDigits(text) > 0 /\ WellFormedTail(Drop(text, LeadingDigits(text)))

FractionDigits(text) ==
    IF LeadingDigits(text) = Len(text) THEN 0 ELSE Len(text) - LeadingDigits(text) - 1

\* The amount as a whole number of units of 10^-scale, exactly.
ExactUnits(text, scale) ==
    MulPow10(BigFromDigits(SelectSeq(text, LAMBDA c : c # "."), <<>>),
             scale - FractionDigits(text))

RECURSIVE MaxFraction(_)
MaxFraction(amounts) ==
    IF amounts = <<>> THEN 0
    ELSE LET rest == MaxFraction(Tail(amounts))
             this == FractionDigits(Head(amounts))
         IN  IF this > rest THEN this ELSE rest

RECURSIVE ExactSum(_, _)
ExactSum(amounts, scale) ==
    IF amounts = <<>> THEN <<>>
    ELSE AddLimbs(ExactUnits(Head(amounts), scale), ExactSum(Tail(amounts), scale), 0)

Debits(entries)  == [i \in 1..Len(entries) |-> entries[i].debit]
Credits(entries) == [i \in 1..Len(entries) |-> entries[i].credit]

AllWellFormed(entries) ==
    \A i \in 1..Len(entries) :
        WellFormedDecimal(entries[i].debit) /\ WellFormedDecimal(entries[i].credit)

\* The sum of the debits equals the sum of the credits, as decimals.
ExactlyBalanced(entries) ==
    LET scale == MaxFraction(Debits(entries) \o Credits(entries))
    IN  ExactSum(Debits(entries), scale) = ExactSum(Credits(entries), scale)

\* C1 (as claimed): an untampered file whose payload was authored by the
\* signing identity and has well-formed, balanced entries is reported valid,
\* and the verifier hashes it to the digest the producer signed.
C1_ValidPath ==
    (/\ VerifierEnded
     /\ outcome # "read_error"
     /\ tamper.kind = "none"
     /\ genesis_tx.author_did = AccountDid(account.keypair)
     /\ AllWellFormed(genesis_tx.entries)
     /\ ExactlyBalanced(genesis_tx.entries))
    => (/\ outcome = "valid"
        /\ get_hash(signed_tx.payload) = producer_get_hash(genesis_tx))

\* C2: the transaction is reported valid only when verify_signature and
\* verify_balance both ran and succeeded on the payload that was loaded.
C2_ValidOnlyIfBothChecksPass ==
    outcome = "valid"
    => (/\ signature_result.ok
        /\ balance_result.ok
        /\ verify_signature_run(signed_tx, issued).res.ok
        /\ verify_balance(signed_tx.payload).ok
        /\ \E i \in 1..Len(checks) : checks[i] = "verify"
        /\ checks[Len(checks)] = "verify_balance")

C2_Witness ==
    /\ outcome = "valid"
    /\ signature_result.ok
    /\ balance_result.ok
    /\ tamper.kind = "none"

SignatureSteps == <<"did_to_public_key", "hex_decode", "Signature_from_bytes",
                    "get_hash", "verify">>

\* C3: the checks run in the order identity recovery, signature decode,
\* digest and signature check, balance check; the error of the first one that
\* fails is the one surfaced and nothing after it runs.  An author_did without
\* the did:key: prefix, or with another tag, stops at identity recovery.
C3_OrderAndShortCircuit ==
    SignatureChecked =>
        LET id    == did_to_public_key(signed_tx.payload.author_did)
            bytes == hex_decode(signed_tx.signature)
            sig   == Signature_from_bytes(bytes.val)
        IN  /\ ~id.ok =>
                  /\ checks = SubSeq(SignatureSteps, 1, 1)
                  /\ signature_result = id
            /\ (id.ok /\ ~bytes.ok) =>
                  /\ checks = SubSeq(SignatureSteps, 1, 2)
                  /\ signature_result.err = "Invalid hex signature"
            /\ (id.ok /\ bytes.ok /\ ~sig.ok) =>
                  /\ checks = SubSeq(SignatureSteps, 1, 3)
                  /\ signature_result.err = "Invalid signature format"
            /\ (id.ok /\ bytes.ok /\ sig.ok) =>
                  /\ SubSeq(checks, 1, 5) = SignatureSteps
                  /\ signature_result.ok \/ signature_result.err = ErrSignatureInvalid
            /\ ~signature_result.ok =>
                  /\ outcome = "signature_failed"
                  /\ pc2 = "returned"
                  /\ balance_result = NotRun
                  /\ \A i \in 1..Len(checks) : checks[i] # "verify_balance"
            /\ (signature_result.ok /\ BalanceChecked) =>
                  /\ checks = Append(SignatureSteps, "verify_balance")
                  /\ ~balance_result.ok => outcome = "balance_failed" /\ pc2 = "returned"
            /\ (signature_result.ok /\ ~BalanceChecked) => checks = SignatureSteps

C3_Witness ==
    /\ tamper.kind = "author_malformed"
    /\ tamper.char \in {"no_scheme", "wrong_tag"}
    /\ outcome = "signature_failed"
    /\ checks = <<"did_to_public_key">>
    /\ hex_decode(signed_tx.signature).ok

PayloadTamperKinds ==
    {"timestamp", "memo", "account_id", "debit", "credit", "entry_order"}

\* C4: a signed transaction of which one payload field was changed after
\* signing (timestamp, memo, an account_id, a debit, a credit, the order of the
\* entries), the signature kept, fails verify_signature and is never valid.
C4_TamperDetected ==
    tamper.kind \in PayloadTamperKinds =>
        /\ outcome # "valid"
        /\ pc2 \notin {"signature_ok", "balance_ok", "done"}
        /\ pc2 = "returned" =>
              /\ outcome = "signature_failed"
              /\ signature_result.err = ErrSignatureInvalid
              /\ signed_tx.payload # genesis_tx
              /\ signed_tx.signature = signed_genesis_tx.signature

C4_Witness ==
    /\ tamper.kind = "debit"
    /\ pc2 = "returned"
    /\ signature_result.err = ErrSignatureInvalid
    /\ verify_balance(signed_tx.payload).ok

NextSig ==
    \/ AccountNew
    \/ CreateGenesisTransaction
    \/ SignTransaction
    \/ SaveFile
    \/ TamperSignature(1..(2 * SIGNATURE_LENGTH), ReplacementChars)
    \/ LoadFile
    \/ Deserialize
    \/ VerifySignature
    \/ VerifyBalance
    \/ Report

SpecSig == Init /\ [][NextSig]_vars

SignatureErrors ==
    {"Invalid hex signature", "Invalid signature format", ErrSignatureInvalid}

SignatureRejected ==
    /\ outcome # "valid"
    /\ pc2 \notin {"signature_ok", "balance_ok", "done"}
    /\ pc2 = "returned" =>
          /\ outcome = "signature_failed"
          /\ signature_result.err \in SignatureErrors

\* Two characters that hex::decode reads as the same digit.
SameHexDigit(c, d) ==
    c \in HexChars /\ d \in HexChars /\ HexValue(c) = HexValue(d)

\* C9 (as claimed): one character of the stored signature replaced by any
\* different character makes verification fail with a signature-format or a
\* signature-invalid error; the transaction is never reported valid.
C9_AnyReplacementRejected ==
    tamper.kind = "signature" => SignatureRejected

\* C9 (amended): one character of the stored signature replaced by a
\* character that is not another spelling of the same hex digit makes
\* verification fail with a signature-format or a signature-invalid error.
C9_OtherDigitRejected ==
    (/\ tamper.kind = "signature"
     /\ ~SameHexDigit(tamper.char, signed_genesis_tx.signature[tamper.pos]))
    => SignatureRejected

C9_Witness ==
    /\ tamper.kind = "signature"
    /\ tamper.char \in HexChars
    /\ ~SameHexDigit(tamper.char, signed_genesis_tx.signature[tamper.pos])
    /\ outcome = "signature_failed"
    /\ signature_result.err = ErrSignatureInvalid

(***************************************************************************)
(* Identifiers on their own: built by Account::new or received from        *)
(* elsewhere, then decoded by did_to_public_key, one after another.        *)
(***************************************************************************)
\* Identifiers the verifier must reject, each with the one reason why.
ForgedDids(key) ==
    LET did == AccountDid(key)
    IN  {[reason |-> "missing_prefix", did |-> SubSeq(did, 9, Len(did))],
         [reason |-> "missing_prefix", did |-> DidKeyPrefix \o SubSeq(did, 10, Len(did))],
         [reason |-> "bad_alphabet",   did |-> [did EXCEPT ![Len(did)] = "0"]],
         [reason |-> "bad_alphabet",   did |-> [did EXCEPT ![Len(did) - 1] = "l"]],
         [reason |-> "bad_alphabet",   did |-> [did EXCEPT ![10] = "O"]],
         [reason |-> "wrong_tag",      did |-> DidKeyPrefix \o multibase_encode(<<236, 1>> \o key)],
         [reason |-> "wrong_tag",      did |-> DidKeyPrefix \o multibase_encode(<<237, 2>> \o key)],
         [reason |-> "wrong_tag",      did |-> DidKeyPrefix \o multibase_encode(<<18, 32>> \o key)],
         [reason |-> "wrong_length",   did |-> DidKeyPrefix \o
                  multibase_encode(MulticodecEd25519 \o SubSeq(key, 1, Len(key) - 1))],
         [reason |-> "wrong_length",   did |-> DidKeyPrefix \o
                  multibase_encode(MulticodecEd25519 \o key \o <<0>>)]}

\* Account::new on its own
CodecAccountNew ==
    /\ codec.pc = "idle"
    /\ \E key \in Keys :
          codec' = [codec EXCEPT !.pc = "have", !.did = AccountDid(key), !.key = key,
                                 !.reason = "none", !.result = NotRun]
    /\ UNCHANGED <<producerVars, file, tamper, verifierVars>>

\* an identifier from elsewhere
CodecReceive ==
    /\ codec.pc = "idle"
    /\ \E key \in Keys : \E forged \in ForgedDids(key) :
          codec' = [codec EXCEPT !.pc = "have", !.did = forged.did, !.key = key,
                                 !.reason = forged.reason, !.result = NotRun]
    /\ UNCHANGED <<producerVars, file, tamper, verifierVars>>

\* did_to_public_key on its own
CodecDecode ==
    /\ codec.pc = "have"
    /\ codec' = [codec EXCEPT !.pc = "decoded", !.result = did_to_public_key(codec.did)]
    /\ UNCHANGED <<producerVars, file, tamper, verifierVars>>

\* on to the next identifier, the last answer remembered
CodecAgain ==
    /\ codec.pc = "decoded"
    /\ codec' = [codec EXCEPT !.pc = "idle", !.prev_reason = codec.reason,
                                 !.prev_err = codec.result.err]
    /\ UNCHANGED <<producerVars, file, tamper, verifierVars>>

NextCodec ==
    \/ CodecAccountNew
    \/ CodecReceive
    \/ CodecDecode
    \/ CodecAgain

SpecCodec == Init /\ [][NextCodec]_vars

\* C7: the identifier Account::new builds from a valid public key is accepted
\* by did_to_public_key, which returns that very key.
C7_RoundTrip ==
    (codec.pc = "decoded" /\ codec.reason = "none") => codec.result = Ok(codec.key)

C7_Witness ==
    /\ codec.pc = "decoded"
    /\ codec.reason = "none"
    /\ codec.key = KeyB
    /\ codec.did = AccountDid(KeyB)
    /\ codec.result.ok
    /\ codec.result.val = KeyB

RejectionReasons == {"missing_prefix", "bad_alphabet", "wrong_tag", "wrong_length"}

\* C8 (as claimed): an identifier without the scheme prefix or the base58btc
\* marker, with a character outside the base58 alphabet, with another tag, or
\* of another length is rejected, and identifiers rejected for different
\* reasons get different errors.
C8_DistinctErrors ==
    (codec.pc = "decoded" /\ codec.reason \in RejectionReasons) =>
        /\ ~codec.result.ok
        /\ (codec.prev_reason \in RejectionReasons /\ codec.prev_reason # codec.reason)
              => codec.prev_err # codec.result.err

(***************************************************************************)
(* The two programs run on ledgers with amounts of every spelling.         *)
(***************************************************************************)
LedgerAmounts ==
    {AmtZero, Amt10000, Amt9999, AmtCent,
     <<"0",".","0","0","0","0","1">>, <<"0",".","0","0","0","1">>,
     <<"1">>, <<"0",".","1">>,
     <<"a","b","c">>, <<>>, <<"-","5",".","0","0">>, <<"1","e","3">>,
     <<"i","n","f">>, <<"N","a","N">>}

LedgerLists ==
    EntryLists
    \cup {<<Entry(Cash, debit, credit)>> : debit, credit \in LedgerAmounts}
    \cup {<<Entry(Cash, AmtBigA, AmtZero), Entry(Capital, AmtCent, AmtBigB)>>,
          <<Entry(Capital, AmtCent, AmtBigB), Entry(Cash, AmtBigA, AmtZero)>>}

CreateLedgerTransaction ==
    /\ pc1 = "account"
    /\ \E entries \in LedgerLists :
          genesis_tx' = [timestamp  |-> GenesisTimestamp,
                         author_did |-> account.did,
                         entries    |-> entries,
                         memo       |-> GenesisMemo]
    /\ pc1' = "tx"
    /\ UNCHANGED <<codec, account, signed_genesis_tx, issued, file, tamper, verifierVars>>

NextBalance ==
    \/ AccountNew
    \/ CreateLedgerTransaction
    \/ SignTransaction
    \/ SaveFile
    \/ LoadFile
    \/ Deserialize
    \/ VerifySignature
    \/ VerifyBalance
    \/ Report

SpecBalance == Init /\ [][NextBalance]_vars

ErrImbalance == "Financial imbalance detected"
AmountFormatErrors ==
    {"Invalid debit amount format (Not a number).",
     "Invalid credit amount format (Not a number)."}

\* C5 (as claimed): on well-formed decimal amounts verify_balance succeeds
\* exactly when the debits and the credits have the same exact decimal sum, and
\* otherwise fails with the imbalance error carrying both totals.
C5_ExactBalance ==
    (BalanceChecked /\ AllWellFormed(signed_tx.payload.entries)) =>
        /\ balance_result.ok <=> ExactlyBalanced(signed_tx.payload.entries)
        /\ ~balance_result.ok =>
              /\ balance_result.err = ErrImbalance
              /\ Len(balance_result.val) = 2

\* C6 (as claimed): a payload with a debit or credit that is not a well-formed
\* non-negative decimal makes verify_balance fail with an amount-format error.
C6_MalformedAmountRejected ==
    (BalanceChecked /\ ~AllWellFormed(signed_tx.payload.entries)) =>
        /\ ~balance_result.ok
        /\ balance_result.err \in AmountFormatErrors

=============================================================================
